---- MODULE Spec2Model ----
(***************************************************************************)
(* Credential acquisition of sharepyle (src/sharepyle/creds.py):           *)
(* get_sharefile_credentials with its persisted pickle slot, the refresh   *)
(* grant sf_refresh and the five handshake stages.  One process issues a   *)
(* sequence of calls; every HTTP response is chosen by the environment.    *)
(***************************************************************************)
EXTENDS Integers, Sequences, FiniteSets, TLC

\* ---- bounds -------------------------------------------------------------
\* The clock runs from 0 to MaxTime; one unit is much longer than one call.
MaxTime == 2
\* expires_in of a token response ranges over -1 .. MaxExpiresIn, or is absent.
MaxExpiresIn == 2

\* ---- Python values ------------------------------------------------------
\* None, as returned by dict.get for a missing key.
None == "None"
\* bool(x) of a string-or-None value: None and the empty string are falsy.
Truthy(x) == x # None /\ x # ""

\* The module configuration read at import time (creds.py 35-43).
SHAREFILE_CLIENT_ID == "client_id"
SHAREFILE_CLIENT_SECRET == "client_secret"
SHAREFILE_BASE_URL == "base_url"

\* creds = None
NoCreds == [none |-> TRUE]
IsCreds(c) == "token" \in DOMAIN c

\* Faulty variants of the constructor call: the two tokens are swapped, and the
\* header is rendered from the refresh token.
CredentialsSwapped(access_token, refresh_token, expiration) ==
    [token |-> refresh_token,
     refresh_token |-> access_token,
     expiration |-> expiration,
     client_id |-> SHAREFILE_CLIENT_ID,
     client_secret |-> SHAREFILE_CLIENT_SECRET,
     token_url |-> SHAREFILE_BASE_URL,
     format_matrix |-> << <<"Authorization", << <<"Bearer", " ", "{}">>, "token">> >> >>,
     refresh_func |-> "sf_refresh"]
CredentialsWrongHeader(access_token, refresh_token, expiration) ==
    [token |-> access_token,
     refresh_token |-> refresh_token,
     expiration |-> expiration,
     client_id |-> SHAREFILE_CLIENT_ID,
     client_secret |-> SHAREFILE_CLIENT_SECRET,
     token_url |-> SHAREFILE_BASE_URL,
     format_matrix |-> << <<"Authorization", << <<"Bearer", " ", "{}">>, "refresh_token">> >> >>,
     refresh_func |-> "sf_refresh"]

\* Credentials(token=..., refresh_token=..., expiration=..., ...) of lines 223-234.
\* The template 'Bearer {}' is kept as its pieces: the word, the space and the
\* replacement field.
Credentials(access_token, refresh_token, expiration) ==
    [token |-> access_token,
     refresh_token |-> refresh_token,
     expiration |-> expiration,
     client_id |-> SHAREFILE_CLIENT_ID,
     client_secret |-> SHAREFILE_CLIENT_SECRET,
     token_url |-> SHAREFILE_BASE_URL,
     format_matrix |-> << <<"Authorization", << <<"Bearer", " ", "{}">>, "token">> >> >>,
     refresh_func |-> "sf_refresh"]

\* Rendering of format_matrix by the http_requester package: template.format
\* of the named attribute, one header per row.
Format(template, v) ==
    [i \in 1..Len(template) |-> IF template[i] = "{}" THEN v ELSE template[i]]
Headers(c) ==
    [i \in 1..Len(c.format_matrix) |->
        [name |-> c.format_matrix[i][1],
         value |-> Format(c.format_matrix[i][2][1], c[c.format_matrix[i][2][2]])]]

\* Credentials.valid and Credentials.expired of the http_requester package:
\* valid <=> now < expiration.
CredsValid(c, t) == t < c.expiration
CredsExpired(c, t) == ~CredsValid(c, t)

\* ---- strings as sequences of characters ---------------------------------
\* Index of the first occurrence of ch in s, 0 when there is none.
IndexOf(s, ch) ==
    IF \E i \in 1..Len(s) : s[i] = ch
    THEN CHOOSE i \in 1..Len(s) : s[i] = ch /\ \A j \in 1..(i-1) : s[j] # ch
    ELSE 0

\* s.split(ch, 1): one part when ch does not occur, else the two parts around
\* its first occurrence.
Split1(s, ch) ==
    LET i == IndexOf(s, ch)
    IN IF i = 0 THEN <<s>> ELSE <<SubSeq(s, 1, i-1), SubSeq(s, i+1, Len(s))>>

\* urllib.parse.unquote on the percent escapes that occur in the pages.
UnquoteChar(ch) ==
    CASE ch = "%3D" -> "="
      [] ch = "%2F" -> "/"
      [] ch = "%3F" -> "?"
      [] OTHER -> ch
Unquote(s) == [i \in 1..Len(s) |-> UnquoteChar(s[i])]

\* s[1:]
DropFirst(s) == SubSeq(s, 2, Len(s))

\* ---- outcomes of a parsing step ------------------------------------------
Ok(v) == [ok |-> TRUE, val |-> v, err |-> None]
Raise(e) == [ok |-> FALSE, val |-> None, err |-> e]

\* ---- HTTP sessions ------------------------------------------------------
\* session=None, the session object a caller passes in, and requests.Session()
\* created when k requests have been logged.
NoSession == <<"None", 0>>
CallerSession == <<"caller", 0>>
NewSession(k) == <<"new", k>>
\* session if session is not None else requests.Session()
SessionOrNew(s, k) == IF s # NoSession THEN s ELSE NewSession(k)

\* ---- what the two services can answer -----------------------------------
\* requests raising instead of returning a response.
NetErr == [neterr |-> TRUE]
\* No request was made (a log entry for a file access).
NoResponse == [noresponse |-> TRUE]
IsNetErr(r) == "neterr" \in DOMAIN r

\* Stage 1: the JSON of /authn, seen through .get('sessionToken').
OktaResponses == {[sessionToken |-> t] : t \in {None, "st1"}}

\* Stage 2: the login page, with or without <input id="fromURI" value=...>.
FromURIValues ==
    { <<"%2F", "u", "%3D", "q", "1">>,
      <<"%2F", "u", "=", "q", "2", "=", "x">>,
      <<"%2F", "u">> }
LoginPages ==
    {[has_fromURI |-> TRUE, fromURI |-> v] : v \in FromURIValues}
        \cup {[has_fromURI |-> FALSE, fromURI |-> <<>>]}

\* Stage 3: the IdP page, with or without <input name="SAMLResponse" value=...>.
SamlPages ==
    {[has_SAMLResponse |-> TRUE, SAMLResponse |-> v] : v \in {"sr1"}}
        \cup {[has_SAMLResponse |-> FALSE, SAMLResponse |-> None]}

\* Stage 4: t.history, the recorded redirects, each with or without a
\* Location header.
Loc(s) == [has_location |-> TRUE, location |-> s]
NoLoc == [has_location |-> FALSE, location |-> <<>>]
CodeLocation1 == Loc(<<"/", "?", "c", "=", "k", "1", "&", "s", "=", "z">>)
CodeLocation2 == Loc(<<"/", "?", "c", "=", "k", "2">>)
PlainLocation == Loc(<<"/", "x">>)
Redirects ==
    {[history |-> h] : h \in
    { <<>>,
      <<PlainLocation>>,
      <<PlainLocation, CodeLocation1>>,
      <<PlainLocation, CodeLocation2, PlainLocation>>,
      <<CodeLocation1, PlainLocation>>,
      <<PlainLocation, NoLoc>> }}

\* Stage 5 and the refresh grant: the JSON of the token endpoint, seen through
\* .get('access_token'), .get('refresh_token') and .get('expires_in').
AccessTokens == {None, "at1", "at2"}
RefreshTokens == {None, "", "rt1"}
TokenResponses ==
    {[access_token |-> a, refresh_token |-> r, has_expires_in |-> TRUE, expires_in |-> e] :
        a \in AccessTokens, r \in RefreshTokens, e \in (-1)..MaxExpiresIn}
    \cup
    {[access_token |-> a, refresh_token |-> r, has_expires_in |-> FALSE, expires_in |-> 0] :
        a \in AccessTokens, r \in RefreshTokens}

\* ---- the parsing each stage does on its response ------------------------
\* o.json().get('sessionToken')  (line 108)
ParseSessionToken(resp) == Ok(resp.sessionToken)

\* unquote(soup.find('input', {'id': 'fromURI'}).get('value'))[1:].split('=', 1)[1]
ParseSamlRequest(page) ==
    IF ~page.has_fromURI
    THEN Raise("AttributeError")
    ELSE LET parts == Split1(DropFirst(Unquote(page.fromURI)), "=")
         IN IF Len(parts) < 2 THEN Raise("IndexError") ELSE Ok(parts[2])

\* Faulty variant: a missing SAMLResponse element yields None instead of raising.
ParseSamlResponseLenient(page) == Ok(page.SAMLResponse)

\* soup.find('input', {'name': 'SAMLResponse'}).get('value')
ParseSamlResponse(page) ==
    IF ~page.has_SAMLResponse THEN Raise("AttributeError") ELSE Ok(page.SAMLResponse)

\* t.history[1].headers.get('location') and then
\* location.split('?', 1)[1].split('=', 1)[1].split('&', 1)[0]
ParseAuthCode(t) ==
    LET history == t.history
    IN
    IF Len(history) < 2
    THEN Raise("IndexError")
    ELSE IF ~history[2].has_location
    THEN Raise("AttributeError")
    ELSE LET q == Split1(history[2].location, "?")
         IN IF Len(q) < 2
            THEN Raise("IndexError")
            ELSE LET v == Split1(q[2], "=")
                 IN IF Len(v) < 2
                    THEN Raise("IndexError")
                    ELSE Ok(Split1(v[2], "&")[1])

\* Faulty variant: the expiration is expires_in alone, without the clock.
ParseTokensNoClock(resp, t) ==
    IF ~resp.has_expires_in
    THEN Raise("TypeError")
    ELSE Ok(<<resp.access_token, resp.refresh_token, resp.expires_in>>)

\* datetime.fromtimestamp(millinow() / 1000 + y.json().get('expires_in')):
\* adding None raises TypeError.
ParseTokens(resp, t) ==
    IF ~resp.has_expires_in
    THEN Raise("TypeError")
    ELSE Ok(<<resp.access_token, resp.refresh_token, t + resp.expires_in>>)

\* ---- pickle ---------------------------------------------------------------
\* The token file does not exist.
NoFile == [exists |-> FALSE]
\* pickle.dump(creds, token): the instance attributes by value, the refresh
\* function by its qualified name.
PickleDump(c) ==
    [exists |-> TRUE,
     cls |-> "http_requester.creds.Credentials",
     attrs |-> [k \in DOMAIN c \ {"refresh_func"} |-> c[k]],
     func |-> <<"sharepyle.creds", c.refresh_func>>]
\* Faulty variant: the refresh function is not restored on load.
PickleLoadWithoutFunc(f) ==
    [k \in DOMAIN f.attrs \cup {"refresh_func"} |->
        IF k = "refresh_func" THEN None ELSE f.attrs[k]]

\* pickle.load(token): the attributes back on a new instance, the function
\* looked up again by name.
PickleLoad(f) ==
    [k \in DOMAIN f.attrs \cup {"refresh_func"} |->
        IF k = "refresh_func" THEN f.func[2] ELSE f.attrs[k]]

\* ---- the decisions of get_sharefile_credentials ---------------------------
\* Faulty variants of the three decisions: the load is not guarded, every loaded
\* credential is taken for invalid, and refreshability ignores refresh_token
\* or is never granted.
LoadGuardAlways(force_refresh) == TRUE
NeedsAuthAlways(c, t) == TRUE
CanRefreshNever(c, t) == FALSE
CanRefreshAnyToken(c, t) == IsCreds(c) /\ CredsExpired(c, t)

\* if not force_refresh:  (line 201) guards both the binding of token_path and
\* the load.
LoadGuard(force_refresh) == ~force_refresh
\* if not creds or not creds.valid:  (line 206)
NeedsAuth(c, t) == ~IsCreds(c) \/ ~CredsValid(c, t)
\* if creds and creds.expired and creds.refresh_token:  (line 207)
CanRefresh(c, t) == IsCreds(c) /\ CredsExpired(c, t) /\ Truthy(c.refresh_token)

VARIABLES
    now,          \* the wall clock
    slot,         \* TOKEN_PATH / 'sftoken.pickle'
    pc,           \* where the current call stands
    force,        \* the force_refresh argument of the current call
    session,      \* the local session
    creds,        \* the local creds
    token_path,   \* whether the local token_path is bound
    token,        \* stage 1's result
    saml_request, \* stage 2's result
    saml_response,\* stage 3's result
    code,         \* stage 4's result
    log,          \* the file accesses and HTTP requests of the current call
    result,       \* what the call returned
    err,          \* the exception the call raised, with the step that raised it
    slot0,        \* the slot when the call began
    callTime      \* the clock when the call began

\* The module's import and its configuration (lines 23-52), for the checks of
\* the configuration alone.
VARIABLES
    config,       \* config.yaml and the environment: each input absent, empty or set
    imported,     \* how the import of sharepyle.creds went
    sent          \* the requests made with the imported configuration

\* Concurrent callers of get_sharefile_credentials on the same token file.
VARIABLES
    cpc,          \* where each caller stands
    ccreds,       \* each caller's local creds
    csession,     \* each caller's local session
    cerr,         \* the exception each caller's call raised
    net           \* the requests of all callers since the clock last moved, in order

\* A Listener and its events database (listener.py).
VARIABLES
    db,           \* the event_ids committed to the events table
    txn,          \* the event_ids inserted on the open connection, not yet committed
    lpc,          \* "closed", "open" (inside the with block), "running"
    activity,     \* self.activity
    has_callback, \* whether self.callback is set
    events,       \* self.events, fetched by __enter__
    idx,          \* how many events of self.events the running loop has taken
    runLog,       \* what the current or last run did, event by event
    calls         \* the event_ids the callback was invoked with, over all runs

\* One call of get_activity_log (entities.py).
VARIABLES
    raw,          \* the activity log of the service: requester.json['value']
    logActivity,  \* the activity argument
    logPc,        \* "idle" before the call, "returned" after
    newEvents     \* the events returned

\* A Folder object and the folders of the service (entities.py).
VARIABLES
    srv,          \* the folders of the service below the Folder, as paths of names
    children,     \* the names of the child folders in self.children
    base_url,     \* the folder self.requester.base_url points at, as a path
    fcalls        \* the calls of get_child_folder so far, with their requests

callVars == <<now, slot, pc, force, session, creds, token_path, token, saml_request,
              saml_response, code, log, result, err, slot0, callTime>>
cfgVars == <<config, imported, sent>>
concVars == <<cpc, ccreds, csession, cerr, net>>

lisVars == <<db, txn, lpc, activity, has_callback, events, idx, runLog, calls>>
logVars == <<raw, logActivity, logPc, newEvents>>
folVars == <<srv, children, base_url, fcalls>>
entVars == <<lisVars, logVars, folVars>>

vars == <<callVars, cfgVars, concVars, entVars>>

locals == <<token, saml_request, saml_response, code>>

NoErr == [kind |-> None, at |-> None]

\* The configuration inputs: the keys of config.yaml read at lines 35-43 and
\* the two environment variables of lines 48-52.
YamlKeys ==
    <<"sharefile.client_id", "sharefile.client_secret", "sharefile.subdomain",
      "sharefile.base_url", "okta.api_key", "okta.subdomain", "okta.base_url",
      "okta.app_id">>
EnvKeys == <<"okta_username", "okta_password">>
Inputs == {YamlKeys[i] : i \in 1..Len(YamlKeys)} \cup {EnvKeys[i] : i \in 1..Len(EnvKeys)}

\* The concurrent callers: threads of one process or separate processes.
Callers == {"c1", "c2"}

\* The configuration part at rest: everything set, nothing imported yet.
CfgIdle ==
    /\ config = [k \in Inputs |-> "set"]
    /\ imported = "no"
    /\ sent = <<>>

\* The concurrent part at rest: no caller has begun.
ConcIdle ==
    /\ cpc = [c \in Callers |-> "idle"]
    /\ ccreds = [c \in Callers |-> NoCreds]
    /\ csession = [c \in Callers |-> NoSession]
    /\ cerr = [c \in Callers |-> None]
    /\ net = <<>>

\* No listener is open and the events database is empty.
LisIdle ==
    /\ db = {}
    /\ txn = {}
    /\ lpc = "closed"
    /\ activity = "upload"
    /\ has_callback = TRUE
    /\ events = <<>>
    /\ idx = 0
    /\ runLog = <<>>
    /\ calls = <<>>

\* get_activity_log has not been called.
LogIdle ==
    /\ raw = <<>>
    /\ logActivity = "upload"
    /\ logPc = "idle"
    /\ newEvents = <<>>

\* A Folder without children, its requester pointing at it.
FolIdle ==
    /\ srv = {}
    /\ children = {}
    /\ base_url = <<>>
    /\ fcalls = <<>>

EntIdle == LisIdle /\ LogIdle /\ FolIdle

\* No call has been made and there is no token file.
CallIdle ==
    /\ now = 0
    /\ slot = NoFile
    /\ pc = "idle"
    /\ force = FALSE
    /\ session = NoSession
    /\ creds = NoCreds
    /\ token_path = FALSE
    /\ token = None
    /\ saml_request = <<>>
    /\ saml_response = None
    /\ code = <<>>
    /\ log = <<>>
    /\ result = NoCreds
    /\ err = NoErr
    /\ slot0 = NoFile
    /\ callTime = 0

Init == CallIdle /\ CfgIdle /\ ConcIdle /\ EntIdle

Ended == pc \in {"idle", "returned", "raised"}

\* One log entry: a read or write of the slot, a refresh request or a stage's
\* request, with what was sent (arg), what came back (resp) and what the step
\* made of it (out).
Entry(op, sess, arg, resp, out) ==
    [op |-> op, sess |-> sess, arg |-> arg, resp |-> resp, out |-> out]

\* The exception leaves get_sharefile_credentials: nothing catches it.
RaiseFrom(kind, at) ==
    /\ pc' = "raised"
    /\ err' = [kind |-> kind, at |-> at]

\* Time passes between calls.
Tick ==
    /\ Ended
    /\ now < MaxTime
    /\ now' = now + 1
    /\ UNCHANGED <<slot, pc, force, session, creds, token_path, locals, log, result,
                   err, slot0, callTime, cfgVars, entVars, concVars>>

\* Lines 195-209: the call begins, loads the slot unless force_refresh, and
\* chooses between returning, refreshing and the handshake.
Call(force_refresh, sess) ==
    /\ Ended
    /\ LET reads == LoadGuard(force_refresh) /\ slot # NoFile
           loaded == IF reads THEN PickleLoad(slot) ELSE NoCreds
       IN /\ creds' = loaded
          /\ log' = IF reads THEN <<Entry("read", NoSession, None, NoResponse, None)>> ELSE <<>>
          /\ IF NeedsAuth(loaded, now)
             THEN /\ pc' = IF CanRefresh(loaded, now) THEN "refresh" ELSE "stage1"
                  /\ result' = NoCreds
             ELSE /\ pc' = "returned"
                  /\ result' = loaded
    /\ force' = force_refresh
    /\ session' = sess
    /\ token_path' = LoadGuard(force_refresh)
    /\ token' = None
    /\ saml_request' = <<>>
    /\ saml_response' = None
    /\ code' = <<>>
    /\ err' = NoErr
    /\ slot0' = slot
    /\ callTime' = now
    /\ UNCHANGED <<now, slot, cfgVars, entVars, concVars>>

\* Faulty variant of the sequencing: stage 3 is skipped.
NextStepSkipsStage3(p) ==
    CASE p = "refresh" -> "persist"
      [] p = "stage1" -> "stage2"
      [] p = "stage2" -> "stage4"
      [] p = "stage3" -> "stage4"
      [] p = "stage4" -> "stage5"
      [] p = "stage5" -> "persist"

IsStageName(p) == p \in {"stage1", "stage2", "stage3", "stage4", "stage5"}

\* Lines 208-235: the statement that follows each step when it returns normally.
NextStep(p) ==
    CASE p = "refresh" -> "persist"
      [] p = "stage1" -> "stage2"
      [] p = "stage2" -> "stage3"
      [] p = "stage3" -> "stage4"
      [] p = "stage4" -> "stage5"
      [] p = "stage5" -> "persist"

\* Faulty variant: the refresh token of the response is not stored.
SfRefreshKeepsRefreshToken(c, resp, t) ==
    LET p == ParseTokens(resp, t)
        c2 == [c EXCEPT !.token = resp.access_token]
    IN IF p.ok
       THEN [ok |-> TRUE, err |-> None, creds |-> [c2 EXCEPT !.expiration = p.val[3]]]
       ELSE [ok |-> FALSE, err |-> p.err, creds |-> c2]

\* sf_refresh(self): the attributes are assigned one by one, and the sum with
\* a missing expires_in raises after the two tokens have been assigned.
SfRefresh(c, resp, t) ==
    LET p == ParseTokens(resp, t)
        c2 == [c EXCEPT !.token = resp.access_token,
                        !.refresh_token = resp.refresh_token]
    IN IF p.ok
       THEN [ok |-> TRUE, err |-> None, creds |-> [c2 EXCEPT !.expiration = p.val[3]]]
       ELSE [ok |-> FALSE, err |-> p.err, creds |-> c2]

\* The form fields of the refresh request (lines 77-82).
RefreshData(c) ==
    [grant_type |-> "refresh_token", refresh_token |-> c.refresh_token,
     client_id |-> c.client_id, client_secret |-> c.client_secret]

\* Line 208: creds.refresh(), which calls the credential's refresh_func, the
\* sf_refresh of line 233, and so posts the refresh grant.
Refresh(resp) ==
    /\ pc = "refresh"
    /\ IF creds.refresh_func # "sf_refresh"
       THEN /\ RaiseFrom("TypeError", "refresh")
            /\ UNCHANGED <<creds, log>>
       ELSE /\ log' = Append(log, Entry("refresh", NoSession, RefreshData(creds), resp, None))
            /\ IF IsNetErr(resp)
               THEN /\ RaiseFrom("ConnectionError", "refresh")
                    /\ UNCHANGED creds
               ELSE LET r == SfRefresh(creds, resp, now)
                    IN /\ creds' = r.creds
                       /\ IF r.ok
                          THEN pc' = NextStep("refresh") /\ UNCHANGED err
                          ELSE RaiseFrom(r.err, "refresh")
    /\ UNCHANGED <<now, slot, force, session, token_path, locals, result, slot0, callTime, cfgVars, entVars, concVars>>

\* A stage's request went out on session sess with argument arg, and the
\* stage's parsing of the response gave outcome.
StageDone(stage, sess, arg, resp, outcome) ==
    /\ pc = stage
    /\ session' = sess
    /\ IF IsNetErr(resp)
       THEN /\ log' = Append(log, Entry(stage, sess, arg, resp, None))
            /\ RaiseFrom("ConnectionError", stage)
       ELSE /\ log' = Append(log, Entry(stage, sess, arg, resp, outcome.val))
            /\ IF outcome.ok
               THEN pc' = NextStep(stage) /\ UNCHANGED err
               ELSE RaiseFrom(outcome.err, stage)
    /\ UNCHANGED <<now, slot, force, creds, token_path, result, slot0, callTime, cfgVars, entVars, concVars>>

Returned(resp, outcome) == ~IsNetErr(resp) /\ outcome.ok

\* Lines 210-216: the session is created if none was passed, then stage 1,
\* get_okta_session_token.
Stage1(resp) ==
    LET out == IF IsNetErr(resp) THEN Raise(None) ELSE ParseSessionToken(resp)
    IN /\ StageDone("stage1", SessionOrNew(session, Len(log)),
                    <<"okta_username", "okta_password">>, resp, out)
       /\ token' = IF Returned(resp, out) THEN out.val ELSE token
       /\ UNCHANGED <<saml_request, saml_response, code>>

\* Line 217: stage 2, get_sharefile_saml_request.
Stage2(resp) ==
    LET out == IF IsNetErr(resp) THEN Raise(None) ELSE ParseSamlRequest(resp)
    IN /\ StageDone("stage2", SessionOrNew(session, Len(log)),
                    SHAREFILE_CLIENT_ID, resp, out)
       /\ saml_request' = IF Returned(resp, out) THEN out.val ELSE saml_request
       /\ UNCHANGED <<token, saml_response, code>>

\* Line 218: stage 3, get_sharefile_saml_response.
Stage3(resp) ==
    LET out == IF IsNetErr(resp) THEN Raise(None) ELSE ParseSamlResponse(resp)
    IN /\ StageDone("stage3", SessionOrNew(session, Len(log)),
                    <<token, saml_request>>, resp, out)
       /\ saml_response' = IF Returned(resp, out) THEN out.val ELSE saml_response
       /\ UNCHANGED <<token, saml_request, code>>

\* Line 219: stage 4, get_sharefile_auth_code.
Stage4(resp) ==
    LET out == IF IsNetErr(resp) THEN Raise(None) ELSE ParseAuthCode(resp)
    IN /\ StageDone("stage4", SessionOrNew(session, Len(log)),
                    saml_response, resp, out)
       /\ code' = IF Returned(resp, out) THEN out.val ELSE code
       /\ UNCHANGED <<token, saml_request, saml_response>>

\* Lines 220-234: stage 5, get_sharefile_access_tokens, and the credential
\* built from its result.
Stage5(resp) ==
    LET out == IF IsNetErr(resp) THEN Raise(None) ELSE ParseTokens(resp, now)
    IN /\ pc = "stage5"
       /\ session' = SessionOrNew(session, Len(log))
       /\ log' = Append(log, Entry("stage5", session',
                                   <<code, SHAREFILE_CLIENT_ID, SHAREFILE_CLIENT_SECRET>>,
                                   resp,
                                   IF Returned(resp, out) THEN out.val ELSE None))
       /\ IF IsNetErr(resp)
          THEN RaiseFrom("ConnectionError", "stage5") /\ UNCHANGED creds
          ELSE IF out.ok
          THEN /\ creds' = Credentials(out.val[1], out.val[2], out.val[3])
               /\ pc' = NextStep("stage5")
               /\ UNCHANGED err
          ELSE RaiseFrom(out.err, "stage5") /\ UNCHANGED creds
       /\ UNCHANGED <<now, slot, force, token_path, locals, result, slot0, callTime, cfgVars, entVars, concVars>>

\* Lines 235-237: the credential is pickled to token_path and returned.  The
\* name token_path is bound only under "if not force_refresh".
Persist ==
    /\ pc = "persist"
    /\ IF token_path
       THEN /\ slot' = PickleDump(creds)
            /\ log' = Append(log, Entry("write", NoSession, creds, NoResponse, None))
            /\ pc' = "returned"
            /\ result' = creds
            /\ UNCHANGED err
       ELSE /\ RaiseFrom("UnboundLocalError", "persist")
            /\ UNCHANGED <<slot, log, result>>
    /\ UNCHANGED <<now, force, session, creds, token_path, locals, slot0, callTime, cfgVars, entVars, concVars>>

Next ==
    \/ Tick
    \/ \E f \in BOOLEAN, s \in {NoSession, CallerSession} : Call(f, s)
    \/ \E resp \in TokenResponses \cup {NetErr} : Refresh(resp)
    \/ \E resp \in OktaResponses \cup {NetErr} : Stage1(resp)
    \/ \E resp \in LoginPages \cup {NetErr} : Stage2(resp)
    \/ \E resp \in SamlPages \cup {NetErr} : Stage3(resp)
    \/ \E resp \in Redirects \cup {NetErr} : Stage4(resp)
    \/ \E resp \in TokenResponses \cup {NetErr} : Stage5(resp)
    \/ Persist

Spec == Init /\ [][Next]_vars

\* ---- the import of the module and its configuration ------------------------
\* At most MaxDefects inputs are absent or empty in a configuration.
MaxDefects == 1
InputStates == {"absent", "empty", "set"}
Defects(cfg) == {k \in Inputs : cfg[k] # "set"}
Configs == {cfg \in [Inputs -> InputStates] : Cardinality(Defects(cfg)) <= MaxDefects}

\* UserCreds('okta_username', 'okta_password', key=os.environ.get) of the
\* http_requester package: a missing username or password is refused.
UserCredsOutcome(cfg) ==
    IF \E i \in 1..Len(EnvKeys) : cfg[EnvKeys[i]] # "set"
    THEN "MissingConfiguration"
    ELSE "ok"

\* Lines 35-52 in order: a subscript of a missing key raises KeyError, an empty
\* base url raises AttributeError (line 45-46), then my_okta is built.  An
\* empty value under any other key is read without complaint.
ImportOutcome(cfg) ==
    IF \E i \in 1..Len(YamlKeys) : cfg[YamlKeys[i]] = "absent"
    THEN "KeyError"
    ELSE IF cfg["sharefile.base_url"] # "set"
    THEN "AttributeError"
    ELSE UserCredsOutcome(cfg)

\* The configuration inputs each stage puts into its request, and those the
\* credential is built from (stage 6 here).
StageUses(k) ==
    CASE k = 1 -> {"okta_username", "okta_password", "okta.api_key", "okta.base_url"}
      [] k = 2 -> {"sharefile.client_id", "sharefile.subdomain"}
      [] k = 3 -> {"okta.subdomain", "okta.app_id", "okta.api_key"}
      [] k = 4 -> {"sharefile.subdomain"}
      [] k = 5 -> {"sharefile.subdomain", "sharefile.client_id", "sharefile.client_secret"}

\* import sharepyle.creds
Import ==
    /\ imported = "no"
    /\ imported' = ImportOutcome(config)
    /\ UNCHANGED <<config, sent, callVars, concVars, entVars>>

\* A first call of get_sharefile_credentials after a successful import, with no
\* token file: stage by stage, each answered well (answered) or not.
ConfiguredStage(answered) ==
    /\ imported = "ok"
    /\ Len(sent) < 5
    /\ Len(sent) > 0 => sent[Len(sent)].answered
    /\ sent' = Append(sent, [stage |-> Len(sent) + 1,
                             uses |-> StageUses(Len(sent) + 1),
                             answered |-> answered])
    /\ UNCHANGED <<config, imported, callVars, concVars, entVars>>

InitConfig ==
    /\ CallIdle
    /\ ConcIdle
    /\ EntIdle
    /\ config \in Configs
    /\ imported = "no"
    /\ sent = <<>>

NextConfig ==
    \/ Import
    \/ \E answered \in BOOLEAN : ConfiguredStage(answered)

SpecConfig == InitConfig /\ [][NextConfig]_vars

\* ---- concurrent callers ------------------------------------------------------
\* Two callers run get_sharefile_credentials(session) at once on the same token
\* file; the services answer every request well.

\* The token file after open(token_path, 'wb') and before the pickle is flushed:
\* it exists and is empty.
TruncatedFile == [exists |-> TRUE, truncated |-> TRUE]
IsPickle(f) == "attrs" \in DOMAIN f
\* pickle.load(token): EOFError on an empty file.
LoadFile(f) == IF IsPickle(f) THEN Ok(PickleLoad(f)) ELSE Raise("EOFError")

\* A well-formed answer of the token endpoint.
TokenGrant(access_token) ==
    [access_token |-> access_token, refresh_token |-> "rt1",
     has_expires_in |-> TRUE, expires_in |-> 1]

callRest == <<pc, force, session, creds, token_path, locals, log, result, err,
              slot0, callTime>>

CEnded(c) == cpc[c] \in {"idle", "returned", "raised"}

\* Lines 195-209 for caller c.
CBegin(c, sess) ==
    /\ CEnded(c)
    /\ csession' = [csession EXCEPT ![c] = sess]
    /\ IF slot = NoFile
       THEN /\ ccreds' = [ccreds EXCEPT ![c] = NoCreds]
            /\ cpc' = [cpc EXCEPT ![c] = "stage1"]
            /\ cerr' = [cerr EXCEPT ![c] = None]
       ELSE LET l == LoadFile(slot)
            IN IF ~l.ok
               THEN /\ ccreds' = [ccreds EXCEPT ![c] = NoCreds]
                    /\ cpc' = [cpc EXCEPT ![c] = "raised"]
                    /\ cerr' = [cerr EXCEPT ![c] = l.err]
               ELSE /\ ccreds' = [ccreds EXCEPT ![c] = l.val]
                    /\ cerr' = [cerr EXCEPT ![c] = None]
                    /\ cpc' = [cpc EXCEPT ![c] =
                          IF NeedsAuth(l.val, now)
                          THEN (IF CanRefresh(l.val, now) THEN "refresh" ELSE "stage1")
                          ELSE "returned"]
    /\ UNCHANGED <<now, slot, net, callRest, cfgVars, entVars>>

\* Line 208 for caller c.
CRefresh(c) ==
    /\ cpc[c] = "refresh"
    /\ net' = Append(net, [caller |-> c, op |-> "refresh", sess |-> NoSession,
                           arg |-> RefreshData(ccreds[c])])
    /\ ccreds' = [ccreds EXCEPT ![c] = SfRefresh(ccreds[c], TokenGrant("at2"), now).creds]
    /\ cpc' = [cpc EXCEPT ![c] = NextStep("refresh")]
    /\ UNCHANGED <<now, slot, csession, cerr, callRest, cfgVars, entVars>>

\* Lines 210-234 for caller c: its next stage, on its session.
CStage(c) ==
    /\ IsStageName(cpc[c])
    /\ LET sess == SessionOrNew(csession[c], c)
       IN /\ csession' = [csession EXCEPT ![c] = sess]
          /\ net' = Append(net, [caller |-> c, op |-> cpc[c], sess |-> sess, arg |-> None])
    /\ ccreds' = [ccreds EXCEPT ![c] =
          IF cpc[c] = "stage5"
          THEN LET t == ParseTokens(TokenGrant("at1"), now).val
               IN Credentials(t[1], t[2], t[3])
          ELSE ccreds[c]]
    /\ cpc' = [cpc EXCEPT ![c] = NextStep(cpc[c])]
    /\ UNCHANGED <<now, slot, cerr, callRest, cfgVars, entVars>>

\* Line 235 for caller c: open(token_path, 'wb') truncates the file.
COpen(c) ==
    /\ cpc[c] = "persist"
    /\ slot' = TruncatedFile
    /\ cpc' = [cpc EXCEPT ![c] = "dump"]
    /\ UNCHANGED <<now, ccreds, csession, cerr, net, callRest, cfgVars, entVars>>

\* Lines 236-237 for caller c: the pickle is written, the file closed and the
\* credential returned.
CDump(c) ==
    /\ cpc[c] = "dump"
    /\ slot' = PickleDump(ccreds[c])
    /\ cpc' = [cpc EXCEPT ![c] = "returned"]
    /\ UNCHANGED <<now, ccreds, csession, cerr, net, callRest, cfgVars, entVars>>

\* Line 236 for caller c, the write failing (disk full, process killed).
CDumpFails(c) ==
    /\ cpc[c] = "dump"
    /\ cpc' = [cpc EXCEPT ![c] = "raised"]
    /\ cerr' = [cerr EXCEPT ![c] = "OSError"]
    /\ UNCHANGED <<now, slot, ccreds, csession, net, callRest, cfgVars, entVars>>

\* Time passes while no call is in progress.
CTick ==
    /\ \A c \in Callers : CEnded(c)
    /\ now < MaxTime
    /\ now' = now + 1
    /\ net' = <<>>
    /\ UNCHANGED <<slot, cpc, ccreds, csession, cerr, callRest, cfgVars, entVars>>

NextConc ==
    \/ CTick
    \/ \E c \in Callers, sess \in {NoSession, CallerSession} : CBegin(c, sess)
    \/ \E c \in Callers : CRefresh(c)
    \/ \E c \in Callers : CStage(c)
    \/ \E c \in Callers : COpen(c)
    \/ \E c \in Callers : CDump(c)
    \/ \E c \in Callers : CDumpFails(c)

SpecConc == Init /\ [][NextConc]_vars

\* ---- the activity log ---------------------------------------------------------
MaxRaw == 2

Emails == {"a@welocalize.com", "b@client.com", None}
\* 'welocalize' in email
ContainsWelocalize(email) == email = "a@welocalize.com"

\* The raw events of the WebMvcActivityLog answer.  Child says whether the
\* folder ParentID exists and has a child named as the last segment of
\* AdditionalInfo.
RawEvents ==
    [AdditionalInfo : {"/p/a", "/p/b"}, TimeStamp : 1..2, Email : Emails,
     EventID : {"e1", "e2"}, Child : BOOLEAN]

RECURSIVE SeqsUpTo(_, _)
SeqsUpTo(S, n) ==
    IF n = 0 THEN {<<>>}
    ELSE LET shorter == SeqsUpTo(S, n - 1)
         IN shorter \cup {Append(q, x) : q \in {r \in shorter : Len(r) = n - 1}, x \in S}

RawLogs == SeqsUpTo(RawEvents, MaxRaw)

Activities == {"upload", "new_folder"}

\* Lines 255-268: Event.get_event_item, the child of the parent folder named
\* as the event's item, or None.
GetEventItem(upload) == IF upload.Child THEN upload.AdditionalInfo ELSE None

\* Event(**upload): the fields by their aliases (to_pascal), the item resolved.
Event(upload) ==
    [event_id |-> upload.EventID, additional_info |-> upload.AdditionalInfo,
     time_stamp |-> upload.TimeStamp, email |-> upload.Email,
     event_item |-> GetEventItem(upload)]

\* Line 328: the events the loop does not skip.
Retained(e, act) == ~(~ContainsWelocalize(e.Email) /\ act = "upload")

\* Line 330: events.setdefault(AdditionalInfo, []), the list of one key.
Version(kept, info) == SelectSeq(kept, LAMBDA e : e.AdditionalInfo = info)

\* Faulty variant: the first event of the list, not the latest.
MaxByTimeStampTakesFirst(version) == version[1]

\* Line 335: max(version, key=TimeStamp), the first of the greatest.
MaxByTimeStamp(version) ==
    LET best == {k \in 1..Len(version) :
                    \A j \in 1..Len(version) : version[j].TimeStamp <= version[k].TimeStamp}
    IN version[CHOOSE k \in best : \A j \in best : k <= j]

\* Lines 331-338: one event per key, in the order the keys first appeared,
\* kept if its item resolved.
RECURSIVE NewEventsFrom(_, _)
NewEventsFrom(kept, i) ==
    IF i > Len(kept) THEN <<>>
    ELSE LET info == kept[i].AdditionalInfo
             first == \A j \in 1..(i - 1) : kept[j].AdditionalInfo # info
             event == Event(MaxByTimeStamp(Version(kept, info)))
         IN (IF first /\ event.event_item # None THEN <<event>> ELSE <<>>)
            \o NewEventsFrom(kept, i + 1)

\* Lines 289-341: get_activity_log on the answer value.  The membership test
\* of line 328 raises TypeError on an event without Email.
GetActivityLog(value, act) ==
    IF \E i \in 1..Len(value) : value[i].Email = None
    THEN Raise("TypeError")
    ELSE Ok(NewEventsFrom(SelectSeq(value, LAMBDA e : Retained(e, act)), 1))

\* MainClass.get_activity_log(item_id, activity=act), the service answering value.
CallGetActivityLog ==
    /\ logPc = "idle"
    /\ LET r == GetActivityLog(raw, logActivity)
       IN IF r.ok
          THEN logPc' = "returned" /\ newEvents' = r.val
          ELSE logPc' = "raised" /\ newEvents' = <<>>
    /\ UNCHANGED <<raw, logActivity, lisVars, folVars, callVars, cfgVars, concVars>>

InitLog ==
    /\ CallIdle /\ CfgIdle /\ ConcIdle /\ LisIdle /\ FolIdle
    /\ raw \in RawLogs
    /\ logActivity \in Activities
    /\ logPc = "idle"
    /\ newEvents = <<>>

NextLog == CallGetActivityLog

SpecLog == InitLog /\ [][NextLog]_vars

\* ---- the listener -------------------------------------------------------------
MaxCalls == 3

\* The answers of the activity log a listener meets: events of the listened
\* activity whose items exist.
ListenerLogs ==
    SeqsUpTo({e \in RawEvents : e.TimeStamp = 1 /\ e.Child /\ ContainsWelocalize(e.Email)},
             MaxRaw)

\* Faulty variant: only committed rows are seen.
EventRecordedCommittedOnly(event, committed, inserted) == event.event_id \in committed

\* Lines 70-74: event_recorded, a SELECT on the connection that also made the
\* uncommitted inserts.
EventRecorded(event, committed, inserted) == event.event_id \in committed \cup inserted

\* Faulty variant: the exit rolls back.
CommitNothing(committed, inserted) == committed

\* Lines 42-44: __exit__ commits, whether or not the block raised.
Commit(committed, inserted) == committed \cup inserted

\* Lines 29-40: __enter__ opens the connection and fetches the events.
Enter(value) ==
    /\ lpc = "closed"
    /\ LET r == GetActivityLog(value, activity)
       IN /\ r.ok
          /\ events' = r.val
    /\ lpc' = "open"
    /\ txn' = {}
    /\ idx' = 0
    /\ runLog' = <<>>
    /\ UNCHANGED <<db, activity, has_callback, calls, logVars, folVars, callVars, cfgVars, concVars>>

\* Line 76: run() is called inside the with block.
Run ==
    /\ lpc = "open"
    /\ lpc' = "running"
    /\ idx' = 0
    /\ runLog' = <<>>
    /\ UNCHANGED <<db, txn, activity, has_callback, events, calls, logVars, folVars, callVars, cfgVars, concVars>>

\* Lines 77-86: one turn of the loop of run(): the event is skipped, or
\* recorded and passed to the callback, which returns or raises.
RunStep(raises) ==
    /\ lpc = "running"
    /\ idx < Len(events)
    /\ Len(calls) < MaxCalls
    /\ LET event == events[idx + 1]
           recorded == EventRecorded(event, db, txn)
       IN /\ raises => (has_callback /\ ~recorded)
          /\ idx' = idx + 1
          /\ IF recorded
             THEN /\ runLog' = Append(runLog, [event_id |-> event.event_id, what |-> "skip"])
                  /\ UNCHANGED <<txn, calls, lpc>>
             ELSE /\ txn' = txn \cup {event.event_id}
                  /\ IF has_callback
                     THEN /\ calls' = Append(calls, [event_id |-> event.event_id,
                                                     raised |-> raises])
                          /\ runLog' = Append(runLog, [event_id |-> event.event_id,
                                   what |-> IF raises THEN "raise" ELSE "deliver"])
                          /\ lpc' = IF raises THEN "open" ELSE lpc
                     ELSE /\ runLog' = Append(runLog, [event_id |-> event.event_id,
                                                       what |-> "record"])
                          /\ UNCHANGED <<calls, lpc>>
    /\ UNCHANGED <<db, activity, has_callback, events, logVars, folVars, callVars, cfgVars, concVars>>

\* Line 77: the loop of run() is exhausted.
RunEnd ==
    /\ lpc = "running"
    /\ idx = Len(events)
    /\ lpc' = "open"
    /\ UNCHANGED <<db, txn, activity, has_callback, events, idx, runLog, calls,
                   logVars, folVars, callVars, cfgVars, concVars>>

\* Lines 42-44: the with block is left, normally or by an exception.
Exit ==
    /\ lpc = "open"
    /\ db' = Commit(db, txn)
    /\ txn' = {}
    /\ lpc' = "closed"
    /\ UNCHANGED <<activity, has_callback, events, idx, runLog, calls,
                   logVars, folVars, callVars, cfgVars, concVars>>

InitListener ==
    /\ CallIdle /\ CfgIdle /\ ConcIdle /\ LogIdle /\ FolIdle
    /\ db = {}
    /\ txn = {}
    /\ lpc = "closed"
    /\ activity \in Activities
    /\ has_callback \in BOOLEAN
    /\ events = <<>>
    /\ idx = 0
    /\ runLog = <<>>
    /\ calls = <<>>

NextListener ==
    \/ \E value \in ListenerLogs : Enter(value)
    \/ Run
    \/ \E raises \in BOOLEAN : RunStep(raises)
    \/ RunEnd
    \/ Exit

SpecListener == InitListener /\ [][NextListener]_vars

\* ---- the folder ---------------------------------------------------------------
MaxFolderCalls == 3

FolderNames == {"New Docs", "new_docs", "Q1"}

\* helpers.to_snake on the folder names.
ToSnake(name) ==
    CASE name = "New Docs" -> "new_docs"
      [] name = "new_docs" -> "new_docs"
      [] name = "Q1" -> "q1"

\* The names of the folders the service holds directly below the folder at.
ChildNames(folders, at) ==
    {p[Len(p)] : p \in {q \in folders : Len(q) = Len(at) + 1 /\ SubSeq(q, 1, Len(at)) = at}}

\* Lines 762-765: self.children.folders indexes the child folders by
\* to_snake(name) and getattr looks child_name up by to_snake as well.
Matches(cached, child_name) == {n \in cached : ToSnake(n) = ToSnake(child_name)}

\* Lines 750-759: get_children asks the folder the requester points at.
GetChildren ==
    /\ children' = ChildNames(srv, base_url)
    /\ children' # children
    /\ UNCHANGED <<srv, base_url, fcalls, lisVars, logVars, callVars, cfgVars, concVars>>

\* Lines 761-770: get_child_folder.  create_folder (lines 832-845) posts on
\* self.requester and builds the new Folder with requester=self.requester;
\* the Folder's validator (lines 698-708) finds the new id absent from the
\* requester's base_url and re-points that requester at the new folder, so
\* the get_children that follows asks the new folder.
GetChildFolder(child_name, create_if_not_found) ==
    /\ Len(fcalls) < MaxFolderCalls
    /\ LET call == [name |-> child_name, flag |-> create_if_not_found, cached |-> children]
           found == Matches(children, child_name)
           new_child == Append(base_url, child_name)
       IN IF found # {}
          THEN /\ fcalls' = Append(fcalls, [call |-> call, requests |-> <<>>,
                                            result |-> [found |-> found]])
               /\ UNCHANGED <<srv, children, base_url>>
          ELSE IF create_if_not_found
          THEN /\ srv' = srv \cup {new_child}
               /\ base_url' = new_child
               /\ children' = ChildNames(srv', base_url')
               /\ fcalls' = Append(fcalls,
                     [call |-> call,
                      requests |-> <<[op |-> "POST Folder", at |-> base_url],
                                     [op |-> "GET Children", at |-> base_url']>>,
                      result |-> [created |-> new_child]])
          ELSE /\ fcalls' = Append(fcalls, [call |-> call, requests |-> <<>>,
                                            result |-> [none |-> TRUE]])
               /\ UNCHANGED <<srv, children, base_url>>
    /\ UNCHANGED <<lisVars, logVars, callVars, cfgVars, concVars>>

\* Another user of the service creates a folder below the folder.
OtherCreates(name) ==
    /\ <<name>> \notin srv
    /\ srv' = srv \cup {<<name>>}
    /\ UNCHANGED <<children, base_url, fcalls, lisVars, logVars, callVars, cfgVars, concVars>>

\* Folder(folder_id): loaded with its children expanded (lines 667-690).
InitFolder ==
    /\ CallIdle /\ CfgIdle /\ ConcIdle /\ LisIdle /\ LogIdle
    /\ srv \in SUBSET {<<n>> : n \in FolderNames}
    /\ children = ChildNames(srv, <<>>)
    /\ base_url = <<>>
    /\ fcalls = <<>>

NextFolder ==
    \/ GetChildren
    \/ \E n \in FolderNames, c \in BOOLEAN : GetChildFolder(n, c)
    \/ \E n \in FolderNames : OtherCreates(n)

SpecFolder == InitFolder /\ [][NextFolder]_vars

\* ---- reading the log ------------------------------------------------------
Handshake == <<"stage1", "stage2", "stage3", "stage4", "stage5">>
IsStage(op) == \E i \in 1..Len(Handshake) : Handshake[i] = op
Ops(l) == [i \in 1..Len(l) |-> l[i].op]
IsStageEntry(e) == IsStage(e.op)
StageEntries == SelectSeq(log, IsStageEntry)
StageOps == Ops(StageEntries)
Count(op) == Cardinality({i \in 1..Len(log) : log[i].op = op})
IsPrefix(a, b) == Len(a) <= Len(b) /\ SubSeq(b, 1, Len(a)) = a
InCall == pc # "idle"

\* The credential the call found in the slot, when it looked.
Stored0 == IF slot0 = NoFile THEN NoCreds ELSE PickleLoad(slot0)
Loaded0 == IF ~force THEN Stored0 ELSE NoCreds

\* The call took the handshake branch: the stages run in order from stage 1,
\* each at most once, nothing is refreshed, and the call gets past stage 5 only
\* with all five done.
HandshakePath ==
    /\ Count("refresh") = 0
    /\ IsPrefix(StageOps, Handshake)
    /\ IsStage(pc) => Len(StageOps) < 5 /\ pc = Handshake[Len(StageOps) + 1]
    /\ pc \in {"persist", "returned"} => StageOps = Handshake
    /\ pc = "raised" =>
          /\ Len(StageOps) >= 1
          /\ \/ err.at = StageOps[Len(StageOps)]
             \/ err.at = "persist" /\ StageOps = Handshake

\* C1: without force refresh, a persisted credential that is not expired and
\* has a non-empty access token is returned as loaded: no stage runs, no
\* refresh request is sent and the slot is not written.
C1_ValidCached ==
    /\ InCall
    /\ ~force
    /\ IsCreds(Stored0)
    /\ CredsValid(Stored0, callTime)
    /\ Truthy(Stored0.token)
C1_ValidCachedIsReturned ==
    C1_ValidCached =>
        /\ pc = "returned"
        /\ result = Stored0
        /\ Ops(log) = <<"read">>
        /\ slot = slot0
C1_Witness == C1_ValidCached /\ pc = "returned" /\ result.token = "at1"

\* C2: an expired persisted credential with a non-empty refresh token causes
\* exactly one refresh request and no handshake stage; when the refresh returns
\* normally the slot holds the credential with the response's access token and
\* expiration by the time the call returns.
C2_ExpiredRefreshable ==
    /\ InCall
    /\ ~force
    /\ IsCreds(Stored0)
    /\ CredsExpired(Stored0, callTime)
    /\ Truthy(Stored0.refresh_token)
C2_RefreshedOnceAndPersisted ==
    C2_ExpiredRefreshable =>
        /\ Len(StageOps) = 0
        /\ ~IsStage(pc)
        /\ Count("refresh") = (IF pc = "refresh" THEN 0 ELSE 1)
        /\ pc = "persist" => Ops(log) = <<"read", "refresh">>
        /\ pc = "returned" =>
              /\ Ops(log) = <<"read", "refresh", "write">>
              /\ log[2].arg.refresh_token = Stored0.refresh_token
              /\ result.token = log[2].resp.access_token
              /\ result.expiration = callTime + log[2].resp.expires_in
              /\ slot # NoFile
              /\ PickleLoad(slot) = result
C2_Witness ==
    /\ C2_ExpiredRefreshable
    /\ pc = "returned"
    /\ result.token = "at2"
    /\ Stored0.token = "at1"
    /\ slot # slot0

\* The refresh request of this call failed: it raised, or the token endpoint
\* answered without the fields of a token response.
RefreshFailed ==
    \E i \in 1..Len(log) :
        /\ log[i].op = "refresh"
        /\ \/ IsNetErr(log[i].resp)
           \/ ~log[i].resp.has_expires_in

\* C3: when the refresh of an expired, refreshable credential fails, the
\* failure is not raised to the caller; the five stages run once and the call
\* returns the credential they produce.
C3_RefreshFailureFallsBack ==
    (C2_ExpiredRefreshable /\ RefreshFailed) =>
        /\ ~(pc = "raised" /\ err.at = "refresh")
        /\ pc \in {"returned", "raised"} => Len(StageOps) >= 1
        /\ pc = "returned" => StageOps = Handshake

\* C4: a loaded credential whose refresh token is empty or absent never causes
\* a refresh request; when it is not valid the handshake runs instead.
C4_NoRefreshToken ==
    /\ InCall
    /\ IsCreds(Loaded0)
    /\ ~Truthy(Loaded0.refresh_token)
C4_NoRefreshWithoutToken ==
    C4_NoRefreshToken =>
        /\ pc # "refresh"
        /\ Count("refresh") = 0
        /\ ~CredsValid(Loaded0, callTime) => HandshakePath
C4_Witness ==
    /\ C4_NoRefreshToken
    /\ Loaded0.refresh_token = ""
    /\ ~CredsValid(Loaded0, callTime)
    /\ pc = "returned"
    /\ StageOps = Handshake

\* Every stage of the call used the same session, the caller's when one was
\* passed.
OneSession ==
    /\ \A i, j \in 1..Len(StageEntries) : StageEntries[i].sess = StageEntries[j].sess
    /\ \A i \in 1..Len(StageEntries) :
          /\ StageEntries[i].sess # NoSession
          /\ session # NoSession => StageEntries[i].sess = session
\* Each stage was given what the stages before it produced.
Threaded ==
    LET e == StageEntries
    IN /\ Len(e) >= 3 => e[3].arg = <<e[1].out, e[2].out>>
       /\ Len(e) >= 4 => e[4].arg = e[3].out
       /\ Len(e) >= 5 => e[5].arg[1] = e[4].out

\* C5: with no persisted credential, stages 1 to 5 run once each in that order
\* on one session, each on the values of the stages before it; the slot is
\* written only after stage 5 and the credential is returned only after the
\* write.
C5_Absent == InCall /\ ~force /\ slot0 = NoFile
C5_HandshakeThenPersistThenReturn ==
    C5_Absent =>
        /\ HandshakePath
        /\ OneSession
        /\ Threaded
        /\ Count("read") = 0
        /\ IF pc = "returned"
           THEN /\ Ops(log) = Handshake \o <<"write">>
                /\ result = Credentials(log[5].out[1], log[5].out[2], log[5].out[3])
                /\ slot # NoFile
                /\ PickleLoad(slot) = result
           ELSE /\ Count("write") = 0
                /\ slot = slot0
                /\ result = NoCreds
C5_Witness ==
    /\ C5_Absent
    /\ pc = "returned"
    /\ session = CallerSession
    /\ log[3].arg = <<"st1", <<"q", "2", "=", "x">> >>
    /\ log[5].arg[1] = <<"k", "1">>

\* C6: under force_refresh the slot is never read, whatever it holds, the
\* handshake is what runs, and no refresh request is sent.
C6_Forced == InCall /\ force
C6_ForceBypassesSlot ==
    C6_Forced =>
        /\ Count("read") = 0
        /\ Count("refresh") = 0
        /\ pc # "refresh"
        /\ HandshakePath
        /\ Len(log) = 0 => creds = NoCreds
C6_Witness ==
    /\ C6_Forced
    /\ IsCreds(Stored0)
    /\ CredsValid(Stored0, callTime)
    /\ StageOps = Handshake
C6_WitnessRefreshable ==
    /\ C6_Forced
    /\ IsCreds(Stored0)
    /\ CredsExpired(Stored0, callTime)
    /\ Truthy(Stored0.refresh_token)
    /\ StageOps = Handshake

\* The call obtained a new credential: its refresh returned normally, or its
\* five stages all did.
CredentialChanged ==
    \/ \E i \in 1..Len(log) :
          log[i].op = "refresh" /\ ~IsNetErr(log[i].resp) /\ log[i].resp.has_expires_in
    \/ /\ StageOps = Handshake
       /\ ~IsNetErr(log[Len(log)].resp) \/ log[Len(log)].op = "write"
       /\ ~(pc = "raised" /\ err.at = "stage5")

\* C7: every successful credential change (refresh, handshake after a miss,
\* handshake under force_refresh) is written to the slot before the call
\* returns it.
C7_ChangePersistedAndReturned ==
    (CredentialChanged /\ pc \in {"returned", "raised"}) =>
        /\ pc = "returned"
        /\ slot # NoFile
        /\ PickleLoad(slot) = result

\* C8: a call that returns returns a credential valid at that time, with a
\* non-empty access token.
C8_ReturnedIsValid ==
    pc = "returned" => (CredsValid(result, callTime) /\ Truthy(result.token))

\* The page or redirect chain of entry e lacks what its stage extracts:
\* no fromURI input, no SAMLResponse input, fewer than two redirects.
MissingArtifact(e) ==
    /\ IsStage(e.op)
    /\ ~IsNetErr(e.resp)
    /\ \/ e.op = "stage2" /\ ~e.resp.has_fromURI
       \/ e.op = "stage3" /\ ~e.resp.has_SAMLResponse
       \/ e.op = "stage4" /\ Len(e.resp.history) < 2

\* C9: when stage 2, 3 or 4 does not find its artifact, the call raises there:
\* no later request is sent, no credential is created and the slot is as it was.
C9_MissingArtifactAborts ==
    \A i \in 1..Len(log) :
        MissingArtifact(log[i]) =>
            /\ i = Len(log)
            /\ pc = "raised"
            /\ err.at = log[i].op
            /\ creds = Loaded0
            /\ result = NoCreds
            /\ slot = slot0
C9_Witness ==
    /\ Len(log) >= 3
    /\ MissingArtifact(log[Len(log)])
    /\ log[Len(log)].op = "stage3"
    /\ pc = "raised"

\* C10: a stage-1 response without sessionToken makes stage 1 fail; stages 2 to
\* 5 send nothing and stage 3 is never given an absent session token.
C10_MissingSessionTokenAborts ==
    /\ \A i \in 1..Len(log) :
          (log[i].op = "stage1" /\ ~IsNetErr(log[i].resp)
              /\ log[i].resp.sessionToken = None) =>
                  (i = Len(log) /\ pc = "raised" /\ err.at = "stage1")
    /\ \A i \in 1..Len(log) : log[i].op = "stage3" => log[i].arg[1] # None

\* C11: a stage-5 response without access_token makes the token exchange fail,
\* whatever its other fields: no credential is created, persisted or returned.
C11_MissingAccessTokenFails ==
    \A i \in 1..Len(log) :
        (log[i].op = "stage5" /\ ~IsNetErr(log[i].resp)
            /\ log[i].resp.access_token = None) =>
                /\ i = Len(log)
                /\ pc = "raised"
                /\ err.at = "stage5"
                /\ creds = Loaded0
                /\ slot = slot0

\* The token response the call's new credential was built from.
IsRenewal(e) == e.op \in {"refresh", "stage5"}
RenewalResp ==
    LET r == SelectSeq(log, IsRenewal) IN r[Len(r)].resp

C12_Renewed == ~force /\ CredentialChanged /\ IsCreds(Stored0)
C13_ValidHasAccessToken ==
    /\ (IsCreds(creds) /\ CredsValid(creds, now)) => Truthy(creds.token)
    /\ (slot # NoFile /\ CredsValid(PickleLoad(slot), now)) =>
          Truthy(PickleLoad(slot).token)

\* C16: the credential the five stages produce has the access token and the
\* refresh token of the stage-5 response, the clock of the exchange plus its
\* expires_in as expiration, and the configured client id and secret.
C16_HandshakeDone ==
    /\ StageOps = Handshake
    /\ pc \in {"persist", "returned"} \/ (pc = "raised" /\ err.at = "persist")
C16_CredentialMatchesStage5 ==
    C16_HandshakeDone =>
        LET r == RenewalResp
        IN /\ creds.token = r.access_token
           /\ creds.refresh_token = r.refresh_token
           /\ creds.expiration = callTime + r.expires_in
           /\ creds.client_id = SHAREFILE_CLIENT_ID
           /\ creds.client_secret = SHAREFILE_CLIENT_SECRET
           /\ pc = "returned" => result = creds
C16_Witness ==
    /\ C16_HandshakeDone
    /\ pc = "returned"
    /\ callTime = 1
    /\ result.token = "at2"
    /\ result.refresh_token = "rt1"
    /\ result.expiration = 3

\* The credential that the call wrote to the slot.
IsWrite(e) == e.op = "write"
Written == SelectSeq(log, IsWrite)[1].arg

C19_Refreshed ==
    /\ InCall
    /\ Count("refresh") = 1
    /\ pc \in {"persist", "returned"}
C19_RefreshOverwritesThreeFields ==
    C19_Refreshed =>
        LET r == RenewalResp
        IN /\ creds = [Stored0 EXCEPT !.token = r.access_token,
                                      !.refresh_token = r.refresh_token,
                                      !.expiration = callTime + r.expires_in]
           /\ log[2].arg = [grant_type |-> "refresh_token",
                            refresh_token |-> Stored0.refresh_token,
                            client_id |-> Stored0.client_id,
                            client_secret |-> Stored0.client_secret]
C19_Witness ==
    /\ C19_Refreshed
    /\ pc = "returned"
    /\ Stored0.token = "at1"
    /\ creds.token = "at2"
    /\ Stored0.refresh_token = "rt1"
    /\ creds.refresh_token = ""
    /\ creds.expiration > Stored0.expiration

\* The access token the returned credential should carry: that of the token
\* response when the call renewed the credential, else the stored one.
CurrentToken == IF CredentialChanged THEN RenewalResp.access_token ELSE Stored0.token

\* C20: rendering a credential gives exactly one header, Authorization, whose
\* value is Bearer, one space and the access token; after a refresh it is the
\* new access token.
C20_BearerHeader ==
    pc = "returned" =>
        Headers(result) =
            << [name |-> "Authorization", value |-> <<"Bearer", " ", CurrentToken>>] >>
C20_Witness ==
    /\ pc = "returned"
    /\ Count("refresh") = 1
    /\ Stored0.token = "at1"
    /\ Headers(result)[1].value = <<"Bearer", " ", "at2">>

\* C18: a missing configuration input makes the import fail, before any
\* request: no stage runs with a missing input.
C18_MissingConfigFailsAtStartup ==
    Defects(config) # {} => (imported # "ok" /\ sent = <<>>)

\* C14: writes of the slot are all or nothing: no caller's load finds an empty
\* or partial file, and a write that fails leaves a complete credential behind.
C14_SlotWritesAreAtomic ==
    \A c \in Callers :
        /\ cerr[c] # "EOFError"
        /\ cerr[c] = "OSError" => (slot # NoFile /\ IsPickle(slot))

\* Two callers' stage requests alternate on one session.
Interleaved(i, j, k) ==
    /\ i < j /\ j < k
    /\ IsStageName(net[i].op) /\ IsStageName(net[j].op) /\ IsStageName(net[k].op)
    /\ net[i].caller = net[k].caller
    /\ net[j].caller # net[i].caller
    /\ net[i].sess = net[j].sess /\ net[j].sess = net[k].sess

\* C15: the stage sequences of two concurrent handshakes never interleave on a
\* common session, also when both calls are passed the same session object.
C15_NoInterleavingOnSession ==
    \A i, j, k \in 1..Len(net) : ~Interleaved(i, j, k)

\* The refresh request of this call failed partway: it raised, or the answer
\* lacks access_token or expires_in.
RefreshFailedPartway ==
    \E i \in 1..Len(log) :
        /\ log[i].op = "refresh"
        /\ \/ IsNetErr(log[i].resp)
           \/ ~log[i].resp.has_expires_in
           \/ log[i].resp.access_token = None

\* C21: a refresh that fails partway leaves the credential as it was loaded
\* and does not write the slot.
C21_FailedRefreshLeavesCredential ==
    RefreshFailedPartway =>
        /\ creds.token = Loaded0.token
        /\ creds.refresh_token = Loaded0.refresh_token
        /\ creds.expiration = Loaded0.expiration
        /\ slot = slot0

\* C22: of two concurrent callers on a slot holding an expired, refreshable
\* credential, at most one sends a refresh request: no refresh token is
\* presented to the token endpoint twice.
C22_RefreshTokenPresentedOnce ==
    \A i, j \in 1..Len(net) :
        (i < j /\ net[i].op = "refresh" /\ net[j].op = "refresh")
            => net[i].arg.refresh_token # net[j].arg.refresh_token

\* The raw events get_activity_log groups: those line 328 does not skip.
RetainedRaw == {k \in 1..Len(raw) : Retained(raw[k], logActivity)}

\* C25: get_activity_log returns at most one event per AdditionalInfo, the
\* one with the greatest TimeStamp among the grouped raw events of that value,
\* and only with a resolved item; with activity upload no event whose Email
\* lacks welocalize is returned.
C25_LatestPerAdditionalInfo ==
    logPc = "returned" =>
        /\ \A i, j \in 1..Len(newEvents) :
              i # j => newEvents[i].additional_info # newEvents[j].additional_info
        /\ \A i \in 1..Len(newEvents) :
              /\ newEvents[i].event_item # None
              /\ logActivity = "upload" => ContainsWelocalize(newEvents[i].email)
              /\ \E k \in RetainedRaw :
                    /\ raw[k].AdditionalInfo = newEvents[i].additional_info
                    /\ raw[k].EventID = newEvents[i].event_id
                    /\ raw[k].TimeStamp = newEvents[i].time_stamp
                    /\ raw[k].Child
                    /\ \A m \in RetainedRaw :
                          raw[m].AdditionalInfo = raw[k].AdditionalInfo
                              => raw[m].TimeStamp <= raw[k].TimeStamp

\* Two raw events share AdditionalInfo, the later one second, and it is returned.
C25_Witness ==
    /\ logPc = "returned"
    /\ Len(raw) = 2
    /\ raw[1].AdditionalInfo = raw[2].AdditionalInfo
    /\ raw[1].TimeStamp < raw[2].TimeStamp
    /\ Len(newEvents) = 1
    /\ newEvents[1].event_id = raw[2].EventID

\* How often the callback was invoked with event_id id.
Invocations(id) == Cardinality({i \in 1..Len(calls) : calls[i].event_id = id})

\* C23: over all runs on one events database the callback is invoked at most
\* once per event_id; an event passed to the callback has been recorded
\* before; a recorded event, and a second occurrence of an event_id within a
\* run, is skipped.
C23_CallbackAtMostOncePerEvent ==
    /\ \A i \in 1..Len(calls) :
          /\ Invocations(calls[i].event_id) <= 1
          /\ calls[i].event_id \in db \cup txn
    /\ \A i, j \in 1..Len(runLog) :
          (i < j /\ runLog[i].event_id = runLog[j].event_id) => runLog[j].what = "skip"
    /\ \A j \in 1..Len(runLog) :
          runLog[j].what = "skip" => runLog[j].event_id \in db \cup txn

\* An event delivered in an earlier with block is skipped in a later run, and
\* an event_id occurring twice in one run is delivered once.
C23_Witness ==
    /\ Len(runLog) = 2
    /\ runLog[1].what = "skip"
    /\ runLog[1].event_id \in db
    /\ runLog[2].what = "deliver"
    /\ Invocations(runLog[1].event_id) = 1

C23_WitnessTwice ==
    /\ Len(runLog) = 2
    /\ runLog[1].what = "deliver"
    /\ runLog[2].what = "skip"
    /\ runLog[1].event_id = runLog[2].event_id

\* C24: an event whose callback raised is recorded, and committed once the
\* with block is left; it is never passed to the callback again; the run ends
\* with it.
C24_RaisedEventIsRecorded ==
    /\ \A i \in 1..Len(calls) :
          calls[i].raised =>
              /\ calls[i].event_id \in db \cup txn
              /\ lpc = "closed" => calls[i].event_id \in db
              /\ Invocations(calls[i].event_id) = 1
    /\ \A j \in 1..Len(runLog) :
          runLog[j].what = "raise" => (j = Len(runLog) /\ idx = j /\ lpc # "running")

\* The callback raised for the first of two events; a later run skipped that
\* event and delivered the other.
C24_Witness ==
    /\ \E i \in 1..Len(calls) : calls[i].raised /\ calls[i].event_id = "e1"
    /\ Len(runLog) = 2
    /\ runLog[1] = [event_id |-> "e1", what |-> "skip"]
    /\ runLog[2] = [event_id |-> "e2", what |-> "deliver"]
    /\ lpc = "closed"

\* The call issued a create-folder request.
Creates(c) == \E r \in 1..Len(c.requests) : c.requests[r].op = "POST Folder"

\* The folder is created only if the cache holds no child of that name and
\* create_if_not_found is true.
C26_CreatesOnlyIfAbsent ==
    \A i \in 1..Len(fcalls) :
        Creates(fcalls[i]) => (fcalls[i].call.flag /\ fcalls[i].call.name \notin fcalls[i].call.cached)

\* Without create_if_not_found and without a match the call returns nothing
\* and sends nothing.
C26_NothingWithoutCreate ==
    \A i \in 1..Len(fcalls) :
        (~fcalls[i].call.flag /\ Matches(fcalls[i].call.cached, fcalls[i].call.name) = {})
            => (fcalls[i].result = [none |-> TRUE] /\ fcalls[i].requests = <<>>)

\* After a creation the next call with the same name creates nothing: it
\* returns the child that exists.
C26_SecondCallFindsChild ==
    \A i \in 1..(Len(fcalls) - 1) :
        (Creates(fcalls[i]) /\ fcalls[i + 1].call.name = fcalls[i].call.name)
            => (~Creates(fcalls[i + 1]) /\ fcalls[i + 1].requests = <<>>)

\* C26: get_child_folder creates a folder only when the cached children hold
\* none of that name and create_if_not_found is true; after a creation the
\* children are reloaded, so a second call with the same name returns the
\* existing child and creates nothing; with create_if_not_found false and no
\* match it returns nothing and sends nothing.
C26_GetChildFolderCreatesOnce ==
    C26_CreatesOnlyIfAbsent /\ C26_NothingWithoutCreate /\ C26_SecondCallFindsChild

====
